---- MODULE Spec2Model ----
(***************************************************************************)
(* Tech-Gear-Server: the request pipeline of src/index.js                  *)
(* (verifyAuth -> validator -> route handler), the storage connection the  *)
(* handlers consult, and the two input validators.                         *)
(*                                                                         *)
(* A request is modelled from the moment the route's own middleware chain  *)
(* starts (after cors, express.json and the rate limiters, whose modules   *)
(* are not among the sources, have passed it on).  Node runs a callback to *)
(* completion, so one action is one run of code between two awaits.        *)
(*                                                                         *)
(* JavaScript values are records [t, n, s]: t the type tag, n the numeric  *)
(* payload, s the characters of a string (or the elements of an array).    *)
(***************************************************************************)
EXTENDS Integers, Sequences, FiniteSets, TLC

----------------------------------------------------------------------------
(* JavaScript values *)

Undef == [t |-> "undefined", n |-> 0, s |-> <<>>]

Null == [t |-> "null", n |-> 0, s |-> <<>>]

NaN == [t |-> "NaN", n |-> 0, s |-> <<>>]

Num(k) == [t |-> "number", n |-> k, s |-> <<>>]

Str(chars) == [t |-> "string", n |-> 0, s |-> chars]

Bool(b) == [t |-> "boolean", n |-> IF b THEN 1 ELSE 0, s |-> <<>>]

Arr(elems) == [t |-> "array", n |-> 0, s |-> elems]

Obj == [t |-> "object", n |-> 0, s |-> <<>>]

IsWhitespace(c) == c = " "

Digits == <<"0", "1", "2", "3", "4", "5", "6", "7", "8", "9">>

IsDigit(c) == \E i \in 1..10 : Digits[i] = c

DigitVal(c) == (CHOOSE i \in 1..10 : Digits[i] = c) - 1

UpperCase == <<"A", "B", "J", "T", "D">>

LowerCase == <<"a", "b", "j", "t", "d">>

\* String.prototype.toLowerCase, one character
LowerChar(c) ==
    IF \E i \in 1..Len(UpperCase) : UpperCase[i] = c
    THEN LowerCase[CHOOSE i \in 1..Len(UpperCase) : UpperCase[i] = c]
    ELSE c

\* String.prototype.toLowerCase
ToLowerCase(chars) == [i \in 1..Len(chars) |-> LowerChar(chars[i])]

RECURSIVE TrimStart(_)
TrimStart(chars) ==
    IF chars # <<>> /\ IsWhitespace(Head(chars)) THEN TrimStart(Tail(chars)) ELSE chars

RECURSIVE TrimEnd(_)
TrimEnd(chars) ==
    IF chars # <<>> /\ IsWhitespace(chars[Len(chars)])
    THEN TrimEnd(SubSeq(chars, 1, Len(chars) - 1))
    ELSE chars

\* String.prototype.trim
Trim(chars) == TrimEnd(TrimStart(chars))

\* !v  is  ~Truthy(v)
Truthy(v) ==
    CASE v.t = "undefined" -> FALSE
      [] v.t = "null"      -> FALSE
      [] v.t = "NaN"       -> FALSE
      [] v.t = "number"    -> v.n # 0
      [] v.t = "string"    -> v.s # <<>>
      [] v.t = "boolean"   -> v.n = 1
      [] OTHER             -> TRUE

\* v.trim is a function only on a string; v.trim() on anything else throws
HasTrim(v) == v.t = "string"

\* v.length: a number on strings and arrays, undefined otherwise
LengthOf(v) == IF v.t \in {"string", "array"} THEN Num(Len(v.s)) ELSE Undef

\* a < b and a > b on numbers; any comparison with undefined (NaN) is false
JsLess(a, b) == a.t = "number" /\ b.t = "number" /\ a.n < b.n

JsGreater(a, b) == a.t = "number" /\ b.t = "number" /\ a.n > b.n

RECURSIVE DecimalValue(_)
DecimalValue(chars) ==
    IF chars = <<>> THEN 0
    ELSE 10 * DecimalValue(SubSeq(chars, 1, Len(chars) - 1)) + DigitVal(chars[Len(chars)])

AllDigits(chars) == chars # <<>> /\ \A i \in 1..Len(chars) : IsDigit(chars[i])

\* Number(string): whitespace is stripped, the empty string is 0, a decimal
\* integer literal (optionally signed) is its value, anything else NaN.
StringToNumber(chars) ==
    LET t == Trim(chars) IN
    IF t = <<>> THEN Num(0)
    ELSE IF AllDigits(t) THEN Num(DecimalValue(t))
    ELSE IF Head(t) = "-" /\ AllDigits(Tail(t)) THEN Num(0 - DecimalValue(Tail(t)))
    ELSE IF Head(t) = "+" /\ AllDigits(Tail(t)) THEN Num(DecimalValue(Tail(t)))
    ELSE NaN

RECURSIVE JoinComma(_)
\* Array.prototype.toString of an array of one-character elements
JoinComma(elems) ==
    IF elems = <<>> THEN <<>>
    ELSE IF Len(elems) = 1 THEN elems
    ELSE <<Head(elems), ",">> \o JoinComma(Tail(elems))

\* Number(v)
NumberOf(v) ==
    CASE v.t = "undefined" -> NaN
      [] v.t = "null"      -> Num(0)
      [] v.t = "NaN"       -> NaN
      [] v.t = "number"    -> v
      [] v.t = "boolean"   -> Num(v.n)
      [] v.t = "string"    -> StringToNumber(v.s)
      [] v.t = "array"     -> StringToNumber(JoinComma(v.s))
      [] OTHER             -> NaN

IsNaN(v) == v.t = "NaN"

\* [^\s@]+
NoSpaceNoAt(chars) ==
    chars # <<>> /\ \A i \in 1..Len(chars) : ~IsWhitespace(chars[i]) /\ chars[i] # "@"

\* /^[^\s@]+@[^\s@]+\.[^\s@]+$/.test(chars)
EmailRegexTest(chars) ==
    \E i, j \in 1..Len(chars) :
        /\ i < j
        /\ chars[i] = "@"
        /\ chars[j] = "."
        /\ NoSpaceNoAt(SubSeq(chars, 1, i - 1))
        /\ NoSpaceNoAt(SubSeq(chars, i + 1, j - 1))
        /\ NoSpaceNoAt(SubSeq(chars, j + 1, Len(chars)))

IsAlpha(c) == c \in {"h", "t", "p", "s", "f"}

\* new URL(chars) does not throw: leading and trailing spaces are stripped,
\* then a scheme of letters, ":" and a non-empty remainder are needed.
UrlParses(chars) ==
    LET t == Trim(chars) IN
    \E k \in 2..Len(t) :
        /\ t[k] = ":"
        /\ \A i \in 1..(k - 1) : IsAlpha(t[i])
        /\ k < Len(t)

----------------------------------------------------------------------------
(* Request bodies and what a middleware decides *)

\* req.body: the product fields and the registration fields
Body(title, price, description, image, name, email, password) ==
    [title |-> title, price |-> price, description |-> description, image |-> image,
     name |-> name, email |-> email, password |-> password]

\* res.status(status).json({ message })
Respond(status, message, body) ==
    [kind |-> "respond", status |-> status, message |-> message, body |-> body]

\* next()
CallNext(body) == [kind |-> "next", status |-> 0, message |-> "", body |-> body]

\* an exception leaves the middleware (a TypeError such as "title.trim is not a function")
Throws(body) == [kind |-> "throw", status |-> 0, message |-> "TypeError", body |-> body]

MaxTitleLength == 200

MaxDescriptionLength == 2000

MinPasswordLength == 6

MaxPasswordLength == 100

MinNameLength == 2

MaxNameLength == 100

\* !v || !v.trim(): the field is missing or blank, is present, or .trim() throws
MissingOrBlank(v) ==
    IF ~Truthy(v) THEN "missing"
    ELSE IF ~HasTrim(v) THEN "throw"
    ELSE IF ~Truthy(Str(Trim(v.s))) THEN "missing"
    ELSE "present"

\* validateProduct(req, res, next)
validateProduct(body) ==
    LET title == body.title
        price == body.price
        description == body.description
        image == body.image
        priceNum == NumberOf(price)
    IN
    IF MissingOrBlank(title) = "throw" THEN Throws(body)
    ELSE IF MissingOrBlank(title) = "missing"
        THEN Respond(400, "Product title is required", body)
    ELSE IF price.t = "undefined" \/ price.t = "null"
        THEN Respond(400, "Product price is required", body)
    ELSE IF IsNaN(priceNum) \/ JsLess(priceNum, Num(0))
        THEN Respond(400, "Price must be a positive number", body)
    ELSE IF MissingOrBlank(description) = "throw" THEN Throws(body)
    ELSE IF MissingOrBlank(description) = "missing"
        THEN Respond(400, "Product description is required", body)
    ELSE IF MissingOrBlank(image) = "throw" THEN Throws(body)
    ELSE IF MissingOrBlank(image) = "missing"
        THEN Respond(400, "Product image URL is required", body)
    ELSE IF ~UrlParses(image.s)
        THEN Respond(400, "Invalid image URL format", body)
    ELSE IF JsGreater(LengthOf(title), Num(MaxTitleLength))
        THEN Respond(400, "Title must be less than 200 characters", body)
    ELSE IF JsGreater(LengthOf(description), Num(MaxDescriptionLength))
        THEN Respond(400, "Description must be less than 2000 characters", body)
    ELSE CallNext([body EXCEPT !.title = Str(Trim(title.s)),
                               !.description = Str(Trim(description.s)),
                               !.image = Str(Trim(image.s)),
                               !.price = priceNum])

\* the sanitizer without toLowerCase()
SanitizeEmailKeepCase(chars) == Trim(chars)

\* email.trim().toLowerCase()
SanitizeEmail(chars) == ToLowerCase(Trim(chars))

\* validateUserRegistration(req, res, next)
validateUserRegistration(body) ==
    LET name == body.name
        email == body.email
        password == body.password
    IN
    IF MissingOrBlank(name) = "throw" THEN Throws(body)
    ELSE IF MissingOrBlank(name) = "missing"
        THEN Respond(400, "Name is required", body)
    ELSE IF MissingOrBlank(email) = "throw" THEN Throws(body)
    ELSE IF MissingOrBlank(email) = "missing"
        THEN Respond(400, "Email is required", body)
    ELSE IF ~Truthy(password)
        THEN Respond(400, "Password is required", body)
    ELSE IF ~EmailRegexTest(email.s)
        THEN Respond(400, "Invalid email format", body)
    ELSE IF JsLess(LengthOf(password), Num(MinPasswordLength))
        THEN Respond(400, "Password must be at least 6 characters long", body)
    ELSE IF JsGreater(LengthOf(password), Num(MaxPasswordLength))
        THEN Respond(400, "Password must be less than 100 characters", body)
    ELSE IF JsLess(LengthOf(Str(Trim(name.s))), Num(MinNameLength))
        THEN Respond(400, "Name must be at least 2 characters long", body)
    ELSE IF JsGreater(LengthOf(Str(Trim(name.s))), Num(MaxNameLength))
        THEN Respond(400, "Name must be less than 100 characters", body)
    ELSE CallNext([body EXCEPT !.name = Str(Trim(name.s)),
                               !.email = Str(SanitizeEmail(email.s))])

----------------------------------------------------------------------------
(* Tokens, storage errors, routes *)

\* jwt.verify(token, secret): the decoded payload of a token whose signature
\* is valid and unexpired; verify throws on the others.  "" is an absent field.
JwtValid(token) == token \in {"tokId1", "tokSub2", "tokGhost", "tokNone"}

JwtDecode(token) ==
    CASE token = "tokId1"   -> [id |-> "u1", sub |-> ""]
      [] token = "tokSub2"  -> [id |-> "", sub |-> "u2"]
      [] token = "tokGhost" -> [id |-> "u9", sub |-> ""]
      [] OTHER              -> [id |-> "", sub |-> ""]

\* decoded.id || decoded.sub
SubjectOf(decoded) == IF decoded.id # "" THEN decoded.id ELSE decoded.sub

\* req.headers.authorization: absent, or its parts between single spaces
NoHeader == [present |-> FALSE, parts |-> <<>>]

Header(parts) == [present |-> TRUE, parts |-> parts]

\* authHeader && authHeader.startsWith('Bearer ')
HasBearerPrefix(h) == h.present /\ Len(h.parts) >= 2 /\ h.parts[1] = "Bearer"

\* authHeader.split(' ')[1]
TokenOf(h) == h.parts[2]

\* What a storage operation ends with.  With the connection not ready mongoose
\* buffers the operation and gives up with "buffering timed out"; on a ready
\* connection it succeeds or fails with a driver error.
StorageOutcomes(rs) ==
    IF rs = 1
    THEN {"ok", "MongoServerSelectionError", "MongoTimeoutError", "OtherError"}
    ELSE {"BufferingTimedOut"}

\* error.name
ErrorName(e) == IF e = "BufferingTimedOut" THEN "MongooseError" ELSE e

\* error.message.includes('buffering timed out')
BufferingTimedOut(e) == e = "BufferingTimedOut"

\* a catch block that does not look at the error code
IsDuplicateKeyNever(e) == FALSE

\* error.code === 11000
IsDuplicateKey(e) == e = "DuplicateKey"

\* the cause of a storage failure: storage unreachable or timed out, or not
Retryable(e) == e \in {"MongoServerSelectionError", "MongoTimeoutError", "BufferingTimedOut"}

\* a route without the ObjectId check
ObjectIdIsValidAlways(id) == TRUE

\* mongoose.Types.ObjectId.isValid(id)
ObjectIdIsValid(id) == id \in {"oid1", "oid2", "oid3"}

Routes ==
    {"GET /products", "GET /products/:id", "POST /products",
     "PUT /products/:id", "DELETE /products/:id", "POST /register"}

\* PUT /products/:id registered without verifyAuth
MiddlewaresPutUnguarded(route) ==
    CASE route = "POST /products"       -> <<"verifyAuth", "validateProduct", "handler">>
      [] route = "DELETE /products/:id" -> <<"verifyAuth", "handler">>
      [] route = "PUT /products/:id"    -> <<"validateProduct", "handler">>
      [] route = "POST /register"       -> <<"validateUserRegistration", "handler">>
      [] OTHER                          -> <<"handler">>

\* the middleware of each route after the rate limiter, in order
Middlewares(route) ==
    CASE route = "POST /products"       -> <<"verifyAuth", "validateProduct", "handler">>
      [] route = "DELETE /products/:id" -> <<"verifyAuth", "handler">>
      [] route = "PUT /products/:id"    -> <<"verifyAuth", "validateProduct", "handler">>
      [] route = "POST /register"       -> <<"validateUserRegistration", "handler">>
      [] OTHER                          -> <<"handler">>

\* while (readyState !== 1 && attempts < 10)
MaxPollAttempts == 10

\* the loop without its bound on attempts
PollAgainUnbounded(rs, attempts) == rs # 1

PollAgain(rs, attempts) == rs # 1 /\ attempts < MaxPollAttempts

----------------------------------------------------------------------------
(* State *)

VARIABLES
    mongoUri,     \* process.env.MONGO_URI is set
    readyState,   \* mongoose.connection.readyState: 0 disconnected, 1 connected, 2 connecting
    users,        \* the User collection
    products,     \* the Product collection
    userSeq,      \* ids handed out to users so far
    productSeq,   \* ids handed out to products so far
    reqs,         \* per connection, the request being served or last answered
    served        \* requests received so far

vars == <<mongoUri, readyState, users, products, userSeq, productSeq, reqs, served>>

Conns == {1, 2}

Serial == {1}

MaxRequests == 2

MaxUsers == 2

MaxProducts == 2

UserIds == <<"u1", "u2", "u3">>

ProductIds == <<"oid1", "oid2", "oid3">>

NoUser == [id |-> "", email |-> <<>>]

EmptyBody == Body(Undef, Undef, Undef, Undef, Undef, Undef, Undef)

Idle ==
    [route |-> "none", auth |-> NoHeader, id |-> "", input |-> EmptyBody,
     body |-> EmptyBody, pc |-> "idle", stage |-> 0, user |-> NoUser,
     attempts |-> 0, connects |-> 0, ops |-> {}, blind |-> {}, nexts |-> {},
     threw |-> FALSE, entered |-> 0 - 1, err |-> "", status |-> 0, message |-> ""]

\* a request as it arrives
NewRequest(route, auth, id, body) ==
    [Idle EXCEPT !.route = route, !.auth = auth, !.id = id, !.input = body,
                 !.body = body, !.pc = "start"]

\* res.status(status).json({ message })
Answer(q, status, message) ==
    [q EXCEPT !.pc = "done", !.status = status, !.message = message]

\* the catch block that answers storage error e
Caught(q, e, status, message) == [Answer(q, status, message) EXCEPT !.err = e]

\* a storage operation is issued and awaited; blind keeps the operations
\* issued while the connection was not ready
Issue(q, op, rs) ==
    [q EXCEPT !.pc = op, !.ops = @ \cup {op},
              !.blind = IF rs # 1 THEN @ \cup {op} ELSE @]

----------------------------------------------------------------------------
(* The code a request runs between two awaits *)

\* verifyAuth up to its await: 401, or jwt.verify passed and User.findById issued
VerifyAuthStart(q, rs) ==
    IF ~HasBearerPrefix(q.auth)
        THEN Answer(q, 401, "Unauthorized: No token provided")
    ELSE IF TokenOf(q.auth) = ""
        THEN Answer(q, 401, "Unauthorized: Invalid token")
    ELSE IF ~JwtValid(TokenOf(q.auth))
        THEN Answer(q, 401, "Unauthorized: Invalid or expired token")
    ELSE Issue(q, "User.findById", rs)

\* GET /products after connectDB: the polling loop's test, then the 503 or the find
AfterConnect(q, rs) ==
    IF PollAgain(rs, q.attempts) THEN [q EXCEPT !.pc = "poll"]
    ELSE IF rs # 1
        THEN Answer(q, 503, "Database connection unavailable. Please try again later.")
    ELSE Issue(q, "Product.find", rs)

\* GET /products from its first line: connectDB() when disconnected; connectDB
\* returns at once without MONGO_URI and otherwise awaits mongoose.connect
ListProductsStart(q, rs, uri) ==
    IF rs = 0
    THEN IF uri
         THEN [q EXCEPT !.pc = "connect", !.connects = @ + 1]
         ELSE AfterConnect([q EXCEPT !.connects = @ + 1], rs)
    ELSE AfterConnect(q, rs)

\* GET /products/:id up to its await
GetProductStart(q, rs) ==
    IF rs # 1
        THEN Answer(q, 503, "Database connection unavailable. Please try again later.")
    ELSE IF ~ObjectIdIsValid(q.id)
        THEN Answer(q, 400, "Invalid product ID format")
    ELSE Issue(q, "Product.findById", rs)

\* DELETE /products/:id up to its await
DeleteProductStart(q, rs) ==
    IF ~ObjectIdIsValid(q.id) THEN Answer(q, 400, "Invalid product ID format")
    ELSE Issue(q, "Product.findByIdAndDelete", rs)

\* PUT /products/:id up to its await
UpdateProductStart(q, rs) ==
    IF ~ObjectIdIsValid(q.id) THEN Answer(q, 400, "Invalid product ID format")
    ELSE Issue(q, "Product.findByIdAndUpdate", rs)

\* the route handler up to its first await; entered is the readyState it starts in
HandlerStart(q0, rs, uri) ==
    LET q == [q0 EXCEPT !.entered = rs] IN
    CASE q.route = "GET /products"        -> ListProductsStart(q, rs, uri)
      [] q.route = "GET /products/:id"    -> GetProductStart(q, rs)
      [] q.route = "POST /products"       -> Issue(q, "Product.save", rs)
      [] q.route = "DELETE /products/:id" -> DeleteProductStart(q, rs)
      [] q.route = "PUT /products/:id"    -> UpdateProductStart(q, rs)
      [] q.route = "POST /register"       -> Issue(q, "User.findOne", rs)

\* a validator's decision applied to the request; Express answers an
\* exception thrown by a middleware with 500
Validated(q, d) ==
    CASE d.kind = "respond" -> Answer(q, d.status, d.message)
      [] d.kind = "throw"   -> [Answer(q, 500, d.message) EXCEPT !.threw = TRUE]
      [] d.kind = "next"    -> [q EXCEPT !.body = d.body]

RECURSIVE RunChain(_, _, _, _)
\* Express runs the route's middleware from position i until one of them
\* answers or awaits
RunChain(q, i, rs, uri) ==
    LET mw == Middlewares(q.route)[i]
        at == [q EXCEPT !.stage = i]
    IN
    CASE mw = "verifyAuth" -> VerifyAuthStart(at, rs)
      [] mw = "handler"    -> HandlerStart(at, rs, uri)
      [] OTHER ->
            LET v == Validated(at, IF mw = "validateProduct"
                                   THEN validateProduct(at.body)
                                   ELSE validateUserRegistration(at.body))
            IN IF v.pc = "done" THEN v
               ELSE RunChain([v EXCEPT !.nexts = @ \cup {mw}], i + 1, rs, uri)

\* mongoose.connect(...) sets readyState to connecting
AfterRun(q, rs) == IF q.pc = "connect" THEN 2 ELSE rs

----------------------------------------------------------------------------
(* Inputs *)

ValidTitle == Str(<<"T">>)

ValidDescription == Str(<<"D">>)

ValidImage == Str(<<"h", "t", "t", "p", ":", "/", "/", "x">>)

ValidName == Str(<<"J", "o">>)

ValidEmail == Str(<<"a", "@", "b", ".", "c">>)

ValidPassword == Str(<<"s", "e", "c", "r", "e", "t">>)

ProductBody(title, price, description, image) ==
    Body(title, price, description, image, Undef, Undef, Undef)

RegisterBody(name, email, password) ==
    Body(Undef, Undef, Undef, Undef, name, email, password)

Titles == {ValidTitle, Undef, Str(<<" ">>), Str(<<" ", "T", " ">>), Num(5)}

Prices ==
    {Num(5), Num(0), Num(0 - 1), Undef, Null, Str(<<>>), Str(<<"a", "b">>),
     Str(<<"5">>), Str(<<"-", "1">>), Bool(FALSE), Arr(<<>>), Arr(<<"5">>),
     Arr(<<"1", "2">>), Obj}

Descriptions == {ValidDescription, Undef, Num(5)}

Images == {ValidImage, Str(<<"x">>), Num(5)}

ProductBodies ==
    {ProductBody(t, Num(5), ValidDescription, ValidImage) : t \in Titles}
    \cup {ProductBody(ValidTitle, p, ValidDescription, ValidImage) : p \in Prices}
    \cup {ProductBody(ValidTitle, Num(5), d, ValidImage) : d \in Descriptions}
    \cup {ProductBody(ValidTitle, Num(5), ValidDescription, i) : i \in Images}
    \cup {ProductBody(Undef, Num(0 - 1), ValidDescription, ValidImage)}

Names == {ValidName, Undef, Str(<<" ">>), Str(<<"J">>), Str(<<" ", "J", "o">>), Num(5)}

Emails ==
    {ValidEmail, Str(<<"A", "@", "B", ".", "c">>), Str(<<" ", "a", "@", "b", ".", "c">>),
     Str(<<"a", "@", "b", ".", "c", " ">>), Str(<<"j", "@", "b", ".", "c">>),
     Str(<<"a", "b">>), Undef, Num(5)}

Passwords ==
    {ValidPassword, Undef, Str(<<"s", "e", "c">>), Num(123456),
     Arr(<<"1", "2", "3", "4", "5", "6">>)}

RegisterBodies ==
    {RegisterBody(n, ValidEmail, ValidPassword) : n \in Names}
    \cup {RegisterBody(ValidName, e, ValidPassword) : e \in Emails}
    \cup {RegisterBody(ValidName, ValidEmail, p) : p \in Passwords}

Headers ==
    {NoHeader, Header(<<"Basic", "tokId1">>), Header(<<"Bearer">>),
     Header(<<"Bearer", "">>), Header(<<"Bearer", "garbage">>),
     Header(<<"Bearer", "tokId1">>), Header(<<"Bearer", "tokSub2">>),
     Header(<<"Bearer", "tokGhost">>), Header(<<"Bearer", "tokNone">>)}

ParamIds == {"not-an-id", "oid1", "oid2"}

ValidProductBody == ProductBody(ValidTitle, Num(5), ValidDescription, ValidImage)

SignedIn == Header(<<"Bearer", "tokId1">>)

\* the requests a client may send: every header on DELETE, the main kinds of
\* header on POST and PUT, every body signed in and without a header
Requests ==
    {NewRequest("GET /products", NoHeader, "", EmptyBody)}
    \cup {NewRequest("GET /products/:id", NoHeader, id, EmptyBody) : id \in ParamIds}
    \cup {NewRequest("POST /products", h, "", ValidProductBody) :
            h \in {Header(<<"Bearer", "garbage">>), Header(<<"Bearer", "tokGhost">>)}}
    \cup {NewRequest("POST /products", h, "", b) :
            h \in {NoHeader, SignedIn}, b \in ProductBodies}
    \cup {NewRequest("PUT /products/:id", h, "oid1", ValidProductBody) :
            h \in {NoHeader, Header(<<"Bearer", "garbage">>), Header(<<"Bearer", "tokGhost">>)}}
    \cup {NewRequest("PUT /products/:id", SignedIn, "oid1", b) : b \in ProductBodies}
    \cup {NewRequest("PUT /products/:id", SignedIn, id, ValidProductBody) : id \in ParamIds}
    \cup {NewRequest("DELETE /products/:id", h, "oid1", EmptyBody) : h \in Headers}
    \cup {NewRequest("DELETE /products/:id", SignedIn, id, EmptyBody) : id \in ParamIds}
    \cup {NewRequest("POST /register", NoHeader, "", b) : b \in RegisterBodies}

----------------------------------------------------------------------------
(* Storage *)

\* User.findById(id): the user with that id, or null
FindUserById(us, id) ==
    IF \E u \in us : u.id = id THEN CHOOSE u \in us : u.id = id ELSE NoUser

\* verifyAuth without its check of the looked-up user
UserMissingUnchecked(user) == FALSE

\* if (!user) return 401
UserMissing(user) == user = NoUser

\* User.findOne({ email })
FindUserByEmail(us, email) == \E u \in us : u.email = email

\* the unique index on email of the User collection: save() of a second
\* document with a stored email fails with code 11000
UniqueIndexRejects(us, email) == \E u \in us : u.email = email

\* Product.findById(id)
ProductExists(ps, id) == \E p \in ps : p.id = id

\* the document new Product(req.body).save() stores
ProductDoc(id, body) ==
    [id |-> id, title |-> body.title, price |-> body.price,
     description |-> body.description, image |-> body.image]

\* bcrypt.hash(password, 10) rejects anything but a string
HashRejects(password) == password.t # "string"

Init ==
    /\ mongoUri \in BOOLEAN
    /\ readyState = IF mongoUri THEN 2 ELSE 0
    /\ users \in {{}, {[id |-> "u1", email |-> ValidEmail.s]}}
    /\ userSeq = Cardinality(users)
    /\ products = {}
    /\ productSeq = 0
    /\ reqs = [r \in Conns |-> Idle]
    /\ served = 0

----------------------------------------------------------------------------
(* The connection *)

\* mongoose.connect resolves
ConnectSucceeds ==
    /\ readyState = 2
    /\ readyState' = 1
    /\ UNCHANGED <<mongoUri, users, products, userSeq, productSeq, reqs, served>>

\* mongoose.connect rejects (server selection timed out)
ConnectFails ==
    /\ readyState = 2
    /\ readyState' = 0
    /\ UNCHANGED <<mongoUri, users, products, userSeq, productSeq, reqs, served>>

\* the 'disconnected' event
ConnectionLost ==
    /\ readyState = 1
    /\ readyState' = 0
    /\ UNCHANGED <<mongoUri, users, products, userSeq, productSeq, reqs, served>>

\* the 'reconnected' event
Reconnected ==
    /\ mongoUri
    /\ readyState = 0
    /\ readyState' = 1
    /\ UNCHANGED <<mongoUri, users, products, userSeq, productSeq, reqs, served>>

\* an account is removed from storage (outside this server)
AccountRemoved ==
    /\ \E u \in users : users' = users \ {u}
    /\ UNCHANGED <<mongoUri, readyState, products, userSeq, productSeq, reqs, served>>

----------------------------------------------------------------------------
(* Requests *)

\* a request arrives and runs up to its first await
Receive(r, q) ==
    /\ reqs[r].pc \in {"idle", "done"}
    /\ served < MaxRequests
    /\ q.route = "POST /products" => productSeq < MaxProducts
    /\ q.route = "POST /register" => userSeq < MaxUsers
    /\ LET run == RunChain(q, 1, readyState, mongoUri) IN
        /\ reqs' = [reqs EXCEPT ![r] = run]
        /\ readyState' = AfterRun(run, readyState)
    /\ served' = served + 1
    /\ UNCHANGED <<mongoUri, users, products, userSeq, productSeq>>

\* verifyAuth after await User.findById: 401, or req.user is set and next() runs
\* the rest of the chain
AuthLookupDone(r) ==
    /\ reqs[r].pc = "User.findById"
    /\ \E out \in StorageOutcomes(readyState) :
        LET q == reqs[r]
            user == FindUserById(users, SubjectOf(JwtDecode(TokenOf(q.auth))))
            run ==
                IF out # "ok"
                    THEN Caught(q, out, 401, "Unauthorized: Invalid or expired token")
                ELSE IF UserMissing(user)
                    THEN Answer(q, 401, "Unauthorized: User not found")
                ELSE RunChain([q EXCEPT !.user = user, !.nexts = @ \cup {"verifyAuth"}],
                              q.stage + 1, readyState, mongoUri)
        IN  /\ reqs' = [reqs EXCEPT ![r] = run]
            /\ readyState' = AfterRun(run, readyState)
    /\ UNCHANGED <<mongoUri, users, products, userSeq, productSeq, served>>

\* GET /products after await connectDB(): mongoose.connect has settled
ConnectDBReturns(r) ==
    /\ reqs[r].pc = "connect"
    /\ readyState # 2
    /\ reqs' = [reqs EXCEPT ![r] = AfterConnect(reqs[r], readyState)]
    /\ UNCHANGED <<mongoUri, readyState, users, products, userSeq, productSeq, served>>

\* GET /products after one 500 ms timer: attempts++ and the loop's test again
PollTick(r) ==
    /\ reqs[r].pc = "poll"
    /\ reqs' = [reqs EXCEPT ![r] =
                    AfterConnect([reqs[r] EXCEPT !.attempts = @ + 1], readyState)]
    /\ UNCHANGED <<mongoUri, readyState, users, products, userSeq, productSeq, served>>

\* the catch of GET /products
ListProductsCatch(q, e) ==
    IF \/ ErrorName(e) = "MongoServerSelectionError"
       \/ ErrorName(e) = "MongoTimeoutError"
       \/ BufferingTimedOut(e)
    THEN Caught(q, e, 503, "Database connection timeout. Please try again later.")
    ELSE Caught(q, e, 500, e)

\* GET /products after await Product.find(query)
FindDone(r) ==
    /\ reqs[r].pc = "Product.find"
    /\ \E out \in StorageOutcomes(readyState) :
        reqs' = [reqs EXCEPT ![r] =
                    IF out = "ok" THEN Answer(reqs[r], 200, "")
                    ELSE ListProductsCatch(reqs[r], out)]
    /\ UNCHANGED <<mongoUri, readyState, users, products, userSeq, productSeq, served>>

\* the catch of GET /products/:id
GetProductCatch(q, e) ==
    IF ErrorName(e) = "MongoTimeoutError" \/ BufferingTimedOut(e)
    THEN Caught(q, e, 503, "Database connection timeout. Please try again later.")
    ELSE Caught(q, e, 500, e)

\* GET /products/:id after await Product.findById(id)
FindByIdDone(r) ==
    /\ reqs[r].pc = "Product.findById"
    /\ \E out \in StorageOutcomes(readyState) :
        reqs' = [reqs EXCEPT ![r] =
                    IF out # "ok" THEN GetProductCatch(reqs[r], out)
                    ELSE IF ~ProductExists(products, reqs[r].id)
                        THEN Answer(reqs[r], 404, "Product not found")
                    ELSE Answer(reqs[r], 200, "")]
    /\ UNCHANGED <<mongoUri, readyState, users, products, userSeq, productSeq, served>>

\* POST /products after await newProduct.save()
SaveDone(r) ==
    /\ reqs[r].pc = "Product.save"
    /\ \E out \in StorageOutcomes(readyState) :
        IF out = "ok"
        THEN /\ products' = products
                    \cup {ProductDoc(ProductIds[productSeq + 1], reqs[r].body)}
             /\ productSeq' = productSeq + 1
             /\ reqs' = [reqs EXCEPT ![r] = Answer(reqs[r], 201, "")]
        ELSE /\ reqs' = [reqs EXCEPT ![r] = Caught(reqs[r], out, 400, out)]
             /\ UNCHANGED <<products, productSeq>>
    /\ UNCHANGED <<mongoUri, readyState, users, userSeq, served>>

\* DELETE /products/:id after await Product.findByIdAndDelete(id)
DeleteDone(r) ==
    /\ reqs[r].pc = "Product.findByIdAndDelete"
    /\ \E out \in StorageOutcomes(readyState) :
        IF out = "ok"
        THEN /\ products' = {p \in products : p.id # reqs[r].id}
             /\ reqs' = [reqs EXCEPT ![r] =
                            IF ~ProductExists(products, reqs[r].id)
                            THEN Answer(reqs[r], 404, "Product not found")
                            ELSE Answer(reqs[r], 200, "Product deleted successfully")]
        ELSE /\ reqs' = [reqs EXCEPT ![r] = Caught(reqs[r], out, 500, out)]
             /\ UNCHANGED products
    /\ UNCHANGED <<mongoUri, readyState, users, userSeq, productSeq, served>>

\* PUT /products/:id after await Product.findByIdAndUpdate(id, req.body, ...)
UpdateDone(r) ==
    /\ reqs[r].pc = "Product.findByIdAndUpdate"
    /\ \E out \in StorageOutcomes(readyState) :
        IF out = "ok"
        THEN /\ products' = {IF p.id = reqs[r].id THEN ProductDoc(p.id, reqs[r].body) ELSE p :
                                p \in products}
             /\ reqs' = [reqs EXCEPT ![r] =
                            IF ~ProductExists(products, reqs[r].id)
                            THEN Answer(reqs[r], 404, "Product not found")
                            ELSE Answer(reqs[r], 200, "")]
        ELSE /\ reqs' = [reqs EXCEPT ![r] = Caught(reqs[r], out, 500, out)]
             /\ UNCHANGED products
    /\ UNCHANGED <<mongoUri, readyState, users, userSeq, productSeq, served>>

\* the catch of POST /register
RegisterCatch(q, e) ==
    IF IsDuplicateKey(e) THEN Caught(q, e, 400, "User already exists")
    ELSE Caught(q, e, 500, e)

\* POST /register after await User.findOne({ email }): 400, or the password is
\* hashed and newUser.save() issued
FindOneDone(r) ==
    /\ reqs[r].pc = "User.findOne"
    /\ \E out \in StorageOutcomes(readyState) :
        reqs' = [reqs EXCEPT ![r] =
                    IF out # "ok" THEN RegisterCatch(reqs[r], out)
                    ELSE IF FindUserByEmail(users, reqs[r].body.email.s)
                        THEN Answer(reqs[r], 400, "User already exists")
                    ELSE IF HashRejects(reqs[r].body.password)
                        THEN RegisterCatch(reqs[r], "Illegal arguments")
                    ELSE Issue(reqs[r], "User.save", readyState)]
    /\ UNCHANGED <<mongoUri, readyState, users, products, userSeq, productSeq, served>>

\* POST /register after await newUser.save()
SaveUserDone(r) ==
    /\ reqs[r].pc = "User.save"
    /\ \E out \in StorageOutcomes(readyState) :
        LET res == IF out = "ok" /\ UniqueIndexRejects(users, reqs[r].body.email.s)
                   THEN "DuplicateKey" ELSE out
        IN
        IF res = "ok"
        THEN /\ users' = users \cup {[id |-> UserIds[userSeq + 1],
                                      email |-> reqs[r].body.email.s]}
             /\ userSeq' = userSeq + 1
             /\ reqs' = [reqs EXCEPT ![r] = Answer(reqs[r], 201, "User created successfully")]
        ELSE /\ reqs' = [reqs EXCEPT ![r] = RegisterCatch(reqs[r], res)]
             /\ UNCHANGED <<users, userSeq>>
    /\ UNCHANGED <<mongoUri, readyState, products, productSeq, served>>

\* one step of the request on connection r
Step(r) ==
    \/ \E q \in Requests : Receive(r, q)
    \/ AuthLookupDone(r)
    \/ ConnectDBReturns(r)
    \/ PollTick(r)
    \/ FindDone(r)
    \/ FindByIdDone(r)
    \/ SaveDone(r)
    \/ DeleteDone(r)
    \/ UpdateDone(r)
    \/ FindOneDone(r)
    \/ SaveUserDone(r)

Environment ==
    \/ ConnectSucceeds
    \/ ConnectFails
    \/ ConnectionLost
    \/ Reconnected
    \/ AccountRemoved

Next == (\E r \in Serial : Step(r)) \/ Environment

Spec == Init /\ [][Next]_vars

\* GET /products alone, with the scheduling its awaits rely on: a timer fires,
\* a query ends (maxTimeMS, bufferTimeoutMS), mongoose.connect settles
\* (serverSelectionTimeoutMS)
ListRequests == {NewRequest("GET /products", NoHeader, "", EmptyBody)}

ListStep(r) ==
    \/ \E q \in ListRequests : Receive(r, q)
    \/ ConnectDBReturns(r)
    \/ PollTick(r)
    \/ FindDone(r)

ListNext == (\E r \in Serial : ListStep(r)) \/ Environment

ListProgress ==
    /\ WF_vars(\E r \in Serial : ConnectDBReturns(r) \/ PollTick(r) \/ FindDone(r))
    /\ WF_vars(ConnectSucceeds \/ ConnectFails)

ListSpec == Init /\ [][ListNext]_vars /\ ListProgress

\* POST /register on two connections at once: registrations that pass
\* validation, two of them with the same email up to letter case; every await
\* of one handler may be followed by a step of the other
RaceRequests ==
    {NewRequest("POST /register", NoHeader, "", RegisterBody(ValidName, e, ValidPassword)) :
        e \in {ValidEmail, Str(<<"A", "@", "B", ".", "c">>), Str(<<"j", "@", "b", ".", "c">>)}}

RaceStep(r) ==
    \/ \E q \in RaceRequests : Receive(r, q)
    \/ FindOneDone(r)
    \/ SaveUserDone(r)

RaceEnvironment ==
    \/ ConnectSucceeds
    \/ ConnectFails
    \/ ConnectionLost
    \/ Reconnected

RaceNext == (\E r \in Conns : RaceStep(r)) \/ RaceEnvironment

RaceSpec == Init /\ [][RaceNext]_vars

----------------------------------------------------------------------------
(* Properties *)

MutatingRoutes == {"POST /products", "PUT /products/:id", "DELETE /products/:id"}

Answered(q) == q.pc = "done"

Arrived(q) == q.pc # "idle"

\* the header is absent or does not start with 'Bearer '
LacksBearer(h) == ~h.present \/ Len(h.parts) < 2 \/ h.parts[1] # "Bearer"

\* C1: a request to a mutating product route whose Authorization header is
\* absent or does not start with 'Bearer ' is answered 401 at once; verifyAuth
\* does not call next(), so neither validateProduct nor the handler runs, and
\* the request issues no storage operation (no document is created, updated
\* or deleted by it).
C1_NoBearerIsRejected ==
    \A r \in Conns :
        LET q == reqs[r] IN
        (Arrived(q) /\ q.route \in MutatingRoutes /\ LacksBearer(q.auth)) =>
            /\ Answered(q)
            /\ q.status = 401
            /\ q.stage = 1
            /\ q.nexts = {}
            /\ q.ops = {}
            /\ q.body = q.input

\* POST /products with a valid body and no Authorization header was answered 401
C1_Witness ==
    \E r \in Conns :
        /\ reqs[r].route = "POST /products"
        /\ reqs[r].auth = NoHeader
        /\ reqs[r].input = ValidProductBody
        /\ reqs[r].status = 401
        /\ products = {}

\* the subject of the request's token, as verifyAuth reads it
TokenSubject(q) == SubjectOf(JwtDecode(TokenOf(q.auth)))

\* C2: when the user lookup of verifyAuth completes for a token whose
\* signature is valid and unexpired and whose subject id is the id of no user
\* in storage at that moment, the request is answered 401, req.user is not
\* set and next() is not called.
C2_MissingUserIsRejected ==
    [][\A r \in Conns :
        (/\ reqs[r].pc = "User.findById"
         /\ reqs'[r].pc # "User.findById"
         /\ JwtValid(TokenOf(reqs[r].auth))
         /\ \A u \in users : u.id # TokenSubject(reqs[r]))
        => (/\ reqs'[r].pc = "done"
            /\ reqs'[r].status = 401
            /\ reqs'[r].user = NoUser
            /\ "verifyAuth" \notin reqs'[r].nexts
            /\ reqs'[r].ops = {"User.findById"})]_vars

\* a token for user u1, who was in storage and has been removed, was answered
\* 401 "User not found"
C2_Witness ==
    \E r \in Conns :
        /\ reqs[r].auth = SignedIn
        /\ reqs[r].message = "Unauthorized: User not found"
        /\ reqs[r].status = 401
        /\ userSeq >= 1
        /\ \A u \in users : u.id # "u1"

\* request r is answered in this step
AnsweredNow(r) == reqs'[r].pc = "done" /\ (reqs[r].pc # "done" \/ served' # served)

StorageFailures ==
    {"MongoServerSelectionError", "MongoTimeoutError", "BufferingTimedOut", "OtherError"}

\* two emails equal up to letter case and surrounding whitespace
SameEmail(a, b) == ToLowerCase(Trim(a)) = ToLowerCase(Trim(b))

\* a registration whose name and password pass validation and whose email is a string
RegistrationOf(q) ==
    /\ q.route = "POST /register"
    /\ q.input.name = ValidName
    /\ q.input.password = ValidPassword
    /\ q.input.email.t = "string"
    /\ q.input.email.s # <<>>
    /\ q.err \notin StorageFailures

\* an address with a local part, "@", a domain, "." and a suffix, no whitespace
WellFormedAddress(e) ==
    /\ \A i \in 1..Len(e) : e[i] # " "
    /\ Cardinality({i \in 1..Len(e) : e[i] = "@"}) = 1
    /\ \E i, j \in 2..(Len(e) - 1) : i + 1 < j /\ e[i] = "@" /\ e[j] = "."

\* C3 as stated: of the registrations that are otherwise valid and whose
\* storage operations succeed, one whose email equals a stored user's email up
\* to letter case and surrounding whitespace is answered 400 "User already
\* exists" and adds no user; the first registration of an email is answered
\* 201 and stores the email trimmed and lowercased.
C3_AsStated ==
    [][\A r \in Conns :
        LET q == reqs'[r]
            e == q.input.email.s
        IN
        (AnsweredNow(r) /\ RegistrationOf(q) /\ WellFormedAddress(Trim(e))) =>
            IF \E u \in users : SameEmail(u.email, e)
            THEN q.status = 400 /\ q.message = "User already exists" /\ users' = users
            ELSE /\ q.status = 201
                 /\ \E u \in users' : users' = users \cup {u} /\ u \notin users
                                      /\ u.email = ToLowerCase(Trim(e))]_vars

\* C3 (amended): of the registrations that are otherwise valid and whose
\* storage operations succeed, one whose email equals a stored user's email up
\* to letter case is answered 400 "User already exists" and adds no user; one
\* whose email has surrounding whitespace is answered 400 "Invalid email
\* format", stored or not, and adds no user; the first registration of an
\* email without surrounding whitespace is answered 201 and stores it
\* lowercased.
C3_CaseInsensitiveUnique ==
    [][\A r \in Conns :
        LET q == reqs'[r]
            e == q.input.email.s
        IN
        (AnsweredNow(r) /\ RegistrationOf(q) /\ WellFormedAddress(Trim(e))) =>
            IF Trim(e) # e
            THEN q.status = 400 /\ q.message = "Invalid email format" /\ users' = users
                 /\ q.ops = {}
            ELSE IF \E u \in users : SameEmail(u.email, e)
            THEN q.status = 400 /\ q.message = "User already exists" /\ users' = users
            ELSE /\ q.status = 201
                 /\ \E u \in users' : users' = users \cup {u} /\ u \notin users
                                      /\ u.email = ToLowerCase(e)]_vars

\* "A@B.c" was answered 400 "User already exists" while "a@b.c" is stored
C3_Witness ==
    \E r \in Conns :
        /\ reqs[r].route = "POST /register"
        /\ reqs[r].input.email = Str(<<"A", "@", "B", ".", "c">>)
        /\ reqs[r].status = 400
        /\ reqs[r].message = "User already exists"
        /\ \E u \in users : u.email = ValidEmail.s
        /\ Cardinality(users) = 1

\* neither a number >= 0 nor a numeric string of one
BadPrice(v) ==
    \/ v.t \in {"boolean", "array", "object", "NaN"}
    \/ v.t = "number" /\ v.n < 0
    \/ v.t = "string" /\ ~AllDigits(v.s)

\* C4 as stated: an authenticated POST /products or PUT /products/:id whose
\* price is negative or not a number (the empty string, booleans, arrays and
\* non-numeric strings included) is answered 400 and writes nothing.
C4_BadPriceRejected ==
    \A r \in Conns :
        LET q == reqs[r] IN
        (/\ q.route \in {"POST /products", "PUT /products/:id"}
         /\ "verifyAuth" \in q.nexts
         /\ BadPrice(q.input.price))
        => (Answered(q) /\ q.status = 400 /\ q.ops = {"User.findById"})

\* C5 as stated: GET /products/:id with a malformed id is answered 400
\* "Invalid product ID format" in every connectivity state, without a query.
C5_AsStated ==
    \A r \in Conns :
        LET q == reqs[r] IN
        (q.route = "GET /products/:id" /\ q.id = "not-an-id") =>
            /\ Answered(q)
            /\ q.status = 400
            /\ q.message = "Invalid product ID format"
            /\ q.ops = {}

\* C5 (amended): GET /products/:id with a malformed id issues no storage
\* query in any connectivity state; it is answered 400 "Invalid product ID
\* format" when storage is connected and 503 when it is connecting or
\* disconnected.
C5_BadIdNeverQueries ==
    \A r \in Conns :
        LET q == reqs[r] IN
        (q.route = "GET /products/:id" /\ q.id = "not-an-id") =>
            /\ Answered(q)
            /\ q.ops = {}
            /\ q.entered = 1 => q.status = 400 /\ q.message = "Invalid product ID format"
            /\ q.entered # 1 => q.status = 503

\* a malformed id was answered 400 on a connected storage
C5_Witness ==
    \E r \in Conns :
        /\ reqs[r].route = "GET /products/:id"
        /\ reqs[r].id = "not-an-id"
        /\ reqs[r].entered = 1
        /\ reqs[r].status = 400

\* a request that is well formed for its route: a verifiable token, a valid
\* body, a well-formed id
WellFormedRequest(q) ==
    /\ q.route \in MutatingRoutes => ~LacksBearer(q.auth) /\ TokenOf(q.auth) = "tokId1"
    /\ q.route \in {"POST /products", "PUT /products/:id"} => q.input = ValidProductBody
    /\ q.route \in {"GET /products/:id", "PUT /products/:id", "DELETE /products/:id"}
            => q.id \in {"oid1", "oid2"}
    /\ q.route = "POST /register"
            => q.input = RegisterBody(ValidName, ValidEmail, ValidPassword)

\* C6 as stated: without a storage connection string every data route
\* answers a well-formed request with 503.
C6_NoUriAnswers503 ==
    ~mongoUri =>
        \A r \in Conns :
            (Answered(reqs[r]) /\ reqs[r].route \in Routes /\ WellFormedRequest(reqs[r]))
            => reqs[r].status = 503

\* C7 as stated: validateProduct and validateUserRegistration never throw;
\* each either answers 400 or calls next().
C7_ValidatorsTotal ==
    \A r \in Conns :
        LET q == reqs[r]
            mw == Middlewares(q.route)[q.stage]
        IN
        Arrived(q) =>
            /\ ~q.threw
            /\ (Answered(q) /\ mw \in {"validateProduct", "validateUserRegistration"})
                    => q.status = 400 /\ mw \notin q.nexts

\* C8 as stated: a storage operation that fails because storage is
\* unreachable or timed out is answered 503, one that fails for another
\* cause 500, on every data route and in verifyAuth.
C8_FailuresByCause ==
    \A r \in Conns :
        (Answered(reqs[r]) /\ reqs[r].err \in StorageFailures) =>
            reqs[r].status = IF Retryable(reqs[r].err) THEN 503 ELSE 500

\* the storage operations of the route handlers
HandlerOps ==
    {"Product.find", "Product.findById", "Product.save", "Product.findByIdAndDelete",
     "Product.findByIdAndUpdate", "User.findOne", "User.save"}

\* C9 as stated: every route handler checks the connectivity state before its
\* storage operation, and answers 503 without issuing it when storage is not
\* connected.
C9_HandlersGated ==
    \A r \in Conns :
        LET q == reqs[r] IN
        /\ q.blind \cap HandlerOps = {}
        /\ (q.entered \in {0, 2} /\ q.route # "GET /products" /\ q.route \in Routes)
                => Answered(q) /\ q.status = 503

\* what holds of a GET /products request at every moment
ListRequestSafe(q) ==
    /\ q.attempts <= 10
    /\ q.pc = "poll" => q.attempts < 10
    /\ q.connects = IF q.entered = 0 THEN 1 ELSE 0
    /\ "Product.find" \notin q.blind
    /\ q.pc = "Product.find" => q.ops = {"Product.find"}
    /\ (Answered(q) /\ q.ops = {}) => q.status = 503 /\ q.attempts = 10

\* C10: GET /products always eventually responds from any connectivity state;
\* it calls connectDB once when storage is disconnected and not otherwise,
\* polls at most 10 times, answers 503 without a query when storage is still
\* not connected after the 10th poll, and issues the find only when it has
\* just seen storage connected.
C10_ListAlwaysAnswers ==
    /\ [](\A r \in Conns : reqs[r].route = "GET /products" => ListRequestSafe(reqs[r]))
    /\ \A r \in Conns :
            (reqs[r].route = "GET /products" /\ ~Answered(reqs[r])) ~> Answered(reqs[r])

\* with a connection string, a request that found storage disconnected has
\* tried to connect, polled 10 times and answered 503 without a query
C10_Witness ==
    \E r \in Conns :
        /\ mongoUri
        /\ reqs[r].route = "GET /products"
        /\ reqs[r].entered = 0
        /\ reqs[r].connects = 1
        /\ reqs[r].attempts = 10
        /\ reqs[r].status = 503
        /\ reqs[r].ops = {}

\* the users stored under email e
UsersOf(us, e) == {u \in us : u.email = e}

\* a registration that reached the handler: req.body.email is the normalized email
Registering(q) == q.route = "POST /register" /\ "User.findOne" \in q.ops

\* what holds of a registration that is answered and none of whose storage
\* operations failed for another cause than a duplicate email
RegistrationSettled(q) ==
    /\ \/ q.status = 201 /\ q.message = "User created successfully"
       \/ q.status = 400 /\ q.message = "User already exists"
    /\ Cardinality(UsersOf(users, q.body.email.s)) = 1

\* C11: under any interleaving of concurrent POST /register requests with
\* the same normalized email, whose findOne and save are separate steps, with
\* a store that rejects a duplicate email with code 11000: at most one of them
\* is answered 201, a 201 is answered only by the step that stores the first
\* user of that email, storage never holds two users of one email and holds
\* exactly one once a request is answered, and every other request whose
\* storage operations did not fail for another cause is answered 400 "User
\* already exists", never 500.
C11_RegisterRace ==
    /\ [](/\ \A u, v \in users : u.email = v.email => u = v
          /\ \A r1, r2 \in Conns :
                (/\ r1 # r2
                 /\ Registering(reqs[r1]) /\ Registering(reqs[r2])
                 /\ reqs[r1].body.email = reqs[r2].body.email
                 /\ reqs[r1].status = 201)
                => reqs[r2].status # 201
          /\ \A r \in Conns :
                (/\ Registering(reqs[r]) /\ Answered(reqs[r])
                 /\ reqs[r].err \notin StorageFailures)
                => RegistrationSettled(reqs[r]))
    /\ [][\A r \in Conns :
            (reqs'[r] # reqs[r] /\ Registering(reqs'[r]) /\ reqs'[r].status = 201) =>
                /\ UsersOf(users, reqs'[r].body.email.s) = {}
                /\ Cardinality(UsersOf(users', reqs'[r].body.email.s)) = 1
                /\ \A q \in Conns \ {r} : reqs'[q] = reqs[q]]_vars

\* two registrations differing in letter case ran at once, both lookups found
\* no user and both saved: one was answered 201, the other's save was
\* rejected by the index and answered 400 "User already exists"
C11_Witness ==
    \E r1, r2 \in Conns :
        /\ r1 # r2
        /\ reqs[r1].input.email = ValidEmail
        /\ reqs[r2].input.email = Str(<<"A", "@", "B", ".", "c">>)
        /\ reqs[r1].body.email = reqs[r2].body.email
        /\ {reqs[r1].status, reqs[r2].status} = {201, 400}
        /\ \E r \in {r1, r2} :
              /\ reqs[r].err = "DuplicateKey"
              /\ reqs[r].ops = {"User.findOne", "User.save"}
              /\ reqs[r].message = "User already exists"
        /\ Cardinality(UsersOf(users, ValidEmail.s)) = 1

====
